---- MODULE Spec2Model ----
(***************************************************************************)
(* Prior Authorization API (backend/main.py, observability.py,            *)
(* database.py, models.py).                                                *)
(*                                                                         *)
(* The store (PostgreSQL) is shared by every process that serves the app;  *)
(* each process ("worker") owns its own Prometheus registry and runs one   *)
(* asyncio event loop.  Every handler is an `async def` that never awaits, *)
(* so inside one worker a handler runs from its first to its last line     *)
(* before the next one starts; handlers of different workers interleave at *)
(* the store calls (each execute_query is one transaction).                *)
(*                                                                         *)
(* Strings the code inspects character by character (provider_npi, the     *)
(* request identifiers) are tuples of one-character strings.               *)
(***************************************************************************)
EXTENDS Integers, Sequences, FiniteSets, TLC

VARIABLES
    base,           \* rows of prior_auth_requests that existed at start-up
    requests,       \* rows of prior_auth_requests inserted since, in insert order
    request_logs,   \* rows of request_logs, in insert (timestamp) order
    metrics,        \* per worker: the four Prometheus metric objects
    handler,        \* per worker: the handler the event loop is running
    done,           \* finished calls, in completion order (history)
    calls,          \* number of calls received so far
    issued,         \* identifiers get_next_request_id returned, in order (history)
    faults,         \* number of store failures injected so far
    exec            \* the execute_query call followed step by step (SpecStore)

vars == <<base, requests, request_logs, metrics, handler, done, calls, issued,
          faults, exec>>

(***************************************************************************)
(* Bounds and input sets                                                   *)
(***************************************************************************)
Workers == {1, 2}
MaxCalls == 2
MaxFaults == 1
MaxExecs == 2
\* sizes of prior_auth_requests at start-up: empty, and one row short of
\* the last five-digit identifier
BaseCounts == {0, 99998}

NPI_VALID == <<"1","2","3","4","5","6","7","8","9","0">>
NPI_LETTERS == <<"A","B","C","D","E","F","G","H","I","J">>
NPI_BAD == <<"B","A","D","_","N","P","I">>
NPI_SHORT == <<"1","2","3">>
Npis == {NPI_VALID, NPI_LETTERS, NPI_BAD, NPI_SHORT}
MemberIds == {"M10001", "M99999"}
ErrorTypes == {"database_timeout", "validation_error", "other"}
Times == {1762412400}

(***************************************************************************)
(* Strings                                                                 *)
(***************************************************************************)
DigitChars == <<"0","1","2","3","4","5","6","7","8","9">>
Digits == {DigitChars[i] : i \in 1..10}

\* code points of the characters that occur in identifiers
Ord(c) ==
    CASE c = "-" -> 45
      [] c \in Digits -> 47 + (CHOOSE i \in 1..10 : DigitChars[i] = c)
      [] c = "A" -> 65
      [] c = "E" -> 69
      [] c = "O" -> 79
      [] c = "P" -> 80
      [] c = "R" -> 82

RECURSIVE Dec(_)
\* str(n) for n >= 0
Dec(n) == IF n < 10 THEN <<DigitChars[n + 1]>>
          ELSE Dec(n \div 10) \o <<DigitChars[(n % 10) + 1]>>

RECURSIVE ZeroPad(_, _)
\* the format spec 0<width>d applied to the decimal digits s
ZeroPad(s, width) == IF Len(s) >= width THEN s ELSE ZeroPad(<<"0">> \o s, width)

RECURSIVE StrLess(_, _)
\* a < b for Python strings (lexicographic by code point)
StrLess(a, b) ==
    IF b = <<>> THEN FALSE
    ELSE IF a = <<>> THEN TRUE
    ELSE IF Ord(Head(a)) # Ord(Head(b)) THEN Ord(Head(a)) < Ord(Head(b))
    ELSE StrLess(Tail(a), Tail(b))

\* str.isdigit(): non-empty and every character a digit
isdigit(s) == Len(s) > 0 /\ \A i \in 1..Len(s) : s[i] \in Digits

(***************************************************************************)
(* models.py: the request schema                                           *)
(***************************************************************************)
\* PriorAuthRequest.provider_npi: Field(..., min_length=10, max_length=10).
\* The other fields of every request drawn here satisfy their constraints.
SchemaAccepts(provider_npi) == Len(provider_npi) >= 10 /\ Len(provider_npi) <= 10

(***************************************************************************)
(* observability.py: the metric objects of one process                     *)
(***************************************************************************)
Value(counter, labels) == IF labels \in DOMAIN counter THEN counter[labels] ELSE 0

\* Counter.labels(...).inc(): the child is created on first use
Inc(counter, labels) ==
    IF labels \in DOMAIN counter
    THEN [counter EXCEPT ![labels] = @ + 1]
    ELSE counter @@ (labels :> 1)

NoMetrics == [requests_total |-> <<>>, request_duration |-> <<>>,
              validation_failures |-> <<>>, database_operations |-> <<>>]

record_request(m, status, endpoint) ==
    [m EXCEPT !.requests_total = Inc(@, <<status, endpoint>>)]

\* variant: the series is set to 1 instead of incremented
record_validation_failure_set(m, failure_type) ==
    [m EXCEPT !.validation_failures = (<<failure_type>> :> 1)]

record_validation_failure(m, failure_type) ==
    [m EXCEPT !.validation_failures = Inc(@, <<failure_type>>)]

\* variant: the label is not passed on, every operation counts as insert_request
record_database_operation_unlabelled(m, operation_type) ==
    [m EXCEPT !.database_operations = Inc(@, <<"insert_request">>)]

record_database_operation(m, operation_type) ==
    [m EXCEPT !.database_operations = Inc(@, <<operation_type>>)]

\* RequestTimer.__exit__: one observation of the endpoint's histogram
RequestTimerExit(m, endpoint) ==
    [m EXCEPT !.request_duration = Inc(@, <<endpoint>>)]

(***************************************************************************)
(* main.py: helpers                                                        *)
(***************************************************************************)
\* variant: submits that were given an identifier and failed count as well
CountRequestsAndFailures ==
    base + Len(requests)
    + Cardinality({i \in 1..Len(done) :
                      /\ done[i].op = "submit"
                      /\ done[i].assigned # <<>>
                      /\ done[i].outcome.kind = "raise"})

\* SELECT COUNT(*) FROM prior_auth_requests
CountRequests == base + Len(requests)

\* variant: the count itself instead of count + 1
get_next_request_id_count(count) == <<"P","A","-">> \o ZeroPad(Dec(count), 5)

\* an identifier drawn from a sequence instead: every draw is a new number
get_next_request_id_sequence(count) ==
    <<"P","A","-">> \o ZeroPad(Dec(base + Len(issued) + 1), 5)

\* f"PA-{count + 1:05d}"
get_next_request_id(count) == <<"P","A","-">> \o ZeroPad(Dec(count + 1), 5)

\* one return of get_next_request_id, to the unit serving `call`
Issue(call) == [call |-> call, count |-> CountRequests,
                request_id |-> get_next_request_id(CountRequests)]

\* f"ERROR-{int(time.time())}"
ErrorId(t) == <<"E","R","R","O","R","-">> \o Dec(t)

\* the business rule of the validate_npi span, negated:
\* not (not npi.isdigit() or len(npi) != 10)
NpiValid(provider_npi) == ~(~isdigit(provider_npi) \/ Len(provider_npi) # 10)

\* variant: no except clause, a failed write propagates
log_event_reraises(ok) == ~ok

\* log_event's try/except: does a failed write leave log_event as an exception?
log_event_raises(ok) == FALSE

\* log_event: the row appended to request_logs when the INSERT commits
LogRow(request_id, event_type, call) ==
    [request_id |-> request_id, event_type |-> event_type, call |-> call]

\* variant: the new row is put in front of the existing ones
log_event_rows_front(logs, request_id, event_type, call, ok) ==
    IF ok THEN <<LogRow(request_id, event_type, call)>> \o logs ELSE logs

log_event_rows(logs, request_id, event_type, call, ok) ==
    IF ok THEN Append(logs, LogRow(request_id, event_type, call)) ELSE logs

\* log_event: record_database_operation("insert_log") runs only after the write
log_event_metrics(m, ok) ==
    IF ok THEN record_database_operation(m, "insert_log") ELSE m

\* the row INSERT ... RETURNING gives back (created_at left out)
RequestRow(request_id, member_id, provider_npi, call) ==
    [id |-> CountRequests + 1, request_id |-> request_id, member_id |-> member_id,
     provider_npi |-> provider_npi, diagnosis_code |-> "E11.9",
     requested_service |-> "MRI_BRAIN", status |-> "pending", call |-> call]

NoRow == [id |-> 0, request_id |-> <<>>, member_id |-> "", provider_npi |-> <<>>,
          diagnosis_code |-> "", requested_service |-> "", status |-> "", call |-> 0]

(***************************************************************************)
(* Handlers in progress and finished calls                                 *)
(***************************************************************************)
Idle == [op |-> "idle", pc |-> "idle", call |-> 0,
         member_id |-> "", provider_npi |-> <<>>, error_type |-> "",
         request_id |-> <<>>,     \* the local request_id / error_id
         attr_request_id |-> <<>>, \* root span attribute request.id
         received_id |-> <<>>,    \* identifier REQUEST_RECEIVED was logged under
         assigned |-> <<>>,       \* identifiers returned by get_next_request_id
         spans |-> <<>>,          \* open spans, innermost last
         closed |-> <<>>,         \* closed spans, in closing order
         slept |-> 0,             \* seconds spent in time.sleep
         result |-> NoRow,        \* the row the INSERT returned
         store_failed |-> "",     \* the store call that raised out of the handler
         audit_failed |-> 0]      \* audit writes that failed

Open(h, name) == [h EXCEPT !.spans = Append(@, name)]
Close(h) == [h EXCEPT !.closed = Append(@, h.spans[Len(h.spans)]),
                      !.spans = SubSeq(@, 1, Len(@) - 1)]

\* variant: spans ended by hand, only the innermost one on the way out
CloseInnermost(h) == IF h.spans = <<>> THEN h ELSE Close(h)

RECURSIVE CloseAll(_)
\* leaving every enclosing `with` block, innermost first
CloseAll(h) == IF h.spans = <<>> THEN h ELSE CloseAll(Close(h))

Returned(status, detail, row, rows) ==
    [kind |-> "return", status |-> status, detail |-> detail, row |-> row,
     rows |-> rows]
Raised(status, detail) ==
    [kind |-> "raise", status |-> status, detail |-> detail, row |-> NoRow,
     rows |-> <<>>]

\* an exception of the store (psycopg2) that nothing catches
StoreError == Raised(500, "store error")

\* the record of a finished call
Finished(w, h, outcome) ==
    [w |-> w, op |-> h.op, call |-> h.call, member_id |-> h.member_id,
     provider_npi |-> h.provider_npi, error_type |-> h.error_type,
     request_id |-> h.request_id, attr_request_id |-> h.attr_request_id,
     received_id |-> h.received_id, assigned |-> h.assigned,
     spans |-> CloseAll(h).spans, closed |-> CloseAll(h).closed,
     slept |-> h.slept,
     store_failed |-> h.store_failed, audit_failed |-> h.audit_failed,
     outcome |-> outcome]

\* the handler returns or raises: the event loop is free again
Finish(w, h, outcome) ==
    /\ handler' = [handler EXCEPT ![w] = Idle]
    /\ done' = Append(done, Finished(w, h, outcome))
    /\ exec' = exec

Continue(w, h) ==
    /\ handler' = [handler EXCEPT ![w] = h]
    /\ done' = done
    /\ exec' = exec

\* a store call succeeds (ok) or raises; a call that raises has rolled back
\* and leaves the store as it was; failures are bounded by MaxFaults
StoreCall(ok) ==
    /\ ok \/ faults < MaxFaults
    /\ faults' = IF ok THEN faults ELSE faults + 1

At(w, op, pc) == handler[w].op = op /\ handler[w].pc = pc

\* no execute_query is being followed
NoExec == [pc |-> "idle", fetch |-> FALSE, conn |-> "none", statements |-> 0,
           committed |-> FALSE, rolled_back |-> FALSE, finished |-> <<>>]

Init ==
    /\ base \in BaseCounts
    /\ requests = <<>>
    /\ request_logs = <<>>
    /\ metrics = [w \in Workers |-> NoMetrics]
    /\ handler = [w \in Workers |-> Idle]
    /\ done = <<>>
    /\ calls = 0
    /\ issued = <<>>
    /\ faults = 0
    /\ exec = NoExec

(***************************************************************************)
(* POST /prior-auth/submit                                                 *)
(***************************************************************************)
SUBMIT == "/prior-auth/submit"

\* the request body is parsed into PriorAuthRequest; a body the schema
\* rejects is answered 422 and submit_prior_auth is not entered
SubmitReceive(w) ==
    /\ handler[w].op = "idle"
    /\ calls < MaxCalls
    /\ calls' = calls + 1
    /\ \E member_id \in MemberIds, provider_npi \in Npis :
         LET h == [Idle EXCEPT !.op = "submit", !.call = calls + 1,
                               !.member_id = member_id,
                               !.provider_npi = provider_npi]
         IN  IF SchemaAccepts(provider_npi)
             THEN Continue(w, Open([h EXCEPT !.pc = "generate_id"], "submit_prior_auth"))
             ELSE Finish(w, h, Raised(422, "provider_npi: string length"))
    /\ UNCHANGED <<base, requests, request_logs, metrics, issued, faults>>

\* request_id = get_next_request_id(); the M99999 branch; span attributes
SubmitGenerateId(w) ==
    /\ At(w, "submit", "generate_id")
    /\ \E ok \in BOOLEAN :
         /\ StoreCall(ok)
         /\ issued' = IF ok THEN Append(issued, Issue(handler[w].call)) ELSE issued
         /\ LET h == handler[w]
                id == get_next_request_id(CountRequests)
                h1 == [h EXCEPT !.request_id = id, !.assigned = Append(@, id)]
            IN  IF ~ok
                THEN Finish(w, [h EXCEPT !.store_failed = "count"], StoreError)
                ELSE IF h.member_id = "M99999"
                THEN Continue(w, Open([h1 EXCEPT !.pc = "vip_sleep"],
                                      "vip_member_slow_query"))
                ELSE Continue(w, [h1 EXCEPT !.attr_request_id = id,
                                            !.pc = "log_received"])
    /\ UNCHANGED <<base, requests, request_logs, metrics, calls>>

\* seconds of the synthetic delay for member M99999
VIP_DELAY == 2

\* time.sleep(2) inside the vip_member_slow_query span, then the attributes
SubmitVipSleep(w) ==
    /\ At(w, "submit", "vip_sleep")
    /\ LET h == Close([handler[w] EXCEPT !.slept = @ + VIP_DELAY])
       IN  Continue(w, [h EXCEPT !.attr_request_id = h.request_id,
                                 !.pc = "log_received"])
    /\ UNCHANGED <<base, requests, request_logs, metrics, calls, issued, faults>>

\* log_event(REQUEST_RECEIVED), then the validate_npi span and its rule
SubmitLogReceived(w) ==
    /\ At(w, "submit", "log_received")
    /\ \E ok \in BOOLEAN :
         /\ StoreCall(ok)
         /\ request_logs' = log_event_rows(request_logs, handler[w].request_id,
                                           "REQUEST_RECEIVED", handler[w].call, ok)
         /\ metrics' = [metrics EXCEPT ![w] = log_event_metrics(@, ok)]
         /\ LET h == [handler[w] EXCEPT !.received_id = handler[w].request_id,
                                        !.audit_failed = IF ok THEN @ ELSE @ + 1]
                v == Open(h, "validate_npi")
            IN  IF log_event_raises(ok)
                THEN Finish(w, h, StoreError)
                ELSE IF ~NpiValid(h.provider_npi)
                THEN Continue(w, [v EXCEPT !.pc = "log_validation_failed"])
                ELSE Continue(w, Open([Close(v) EXCEPT !.pc = "generate_id_again"],
                                      "generate_request_id"))
    /\ UNCHANGED <<base, requests, calls, issued>>

\* log_event(VALIDATION_FAILED), the two metrics, HTTPException(400)
SubmitLogValidationFailed(w) ==
    /\ At(w, "submit", "log_validation_failed")
    /\ \E ok \in BOOLEAN :
         /\ StoreCall(ok)
         /\ request_logs' = log_event_rows(request_logs, handler[w].request_id,
                                           "VALIDATION_FAILED", handler[w].call, ok)
         /\ LET h == [handler[w] EXCEPT !.audit_failed = IF ok THEN @ ELSE @ + 1]
                m == log_event_metrics(metrics[w], ok)
            IN  IF log_event_raises(ok)
                THEN /\ metrics' = [metrics EXCEPT ![w] = m]
                     /\ Finish(w, h, StoreError)
                ELSE /\ metrics' = [metrics EXCEPT ![w] =
                            record_request(
                                record_validation_failure(m, "invalid_npi_format"),
                                "validation_error", SUBMIT)]
                     /\ Finish(w, h, Raised(400, "Provider NPI must be exactly 10 digits"))
    /\ UNCHANGED <<base, requests, calls, issued>>

\* the generate_request_id span: request_id = get_next_request_id() again
SubmitGenerateIdAgain(w) ==
    /\ At(w, "submit", "generate_id_again")
    /\ \E ok \in BOOLEAN :
         /\ StoreCall(ok)
         /\ issued' = IF ok THEN Append(issued, Issue(handler[w].call)) ELSE issued
         /\ LET h == handler[w]
                id == get_next_request_id(CountRequests)
            IN  IF ~ok
                THEN Finish(w, [h EXCEPT !.store_failed = "count"], StoreError)
                ELSE Continue(w, Close([h EXCEPT !.request_id = id,
                                                 !.assigned = Append(@, id),
                                                 !.pc = "log_validation_passed"]))
    /\ UNCHANGED <<base, requests, request_logs, metrics, calls>>

\* log_event(VALIDATION_PASSED), then the database_insert span opens
SubmitLogValidationPassed(w) ==
    /\ At(w, "submit", "log_validation_passed")
    /\ \E ok \in BOOLEAN :
         /\ StoreCall(ok)
         /\ request_logs' = log_event_rows(request_logs, handler[w].request_id,
                                           "VALIDATION_PASSED", handler[w].call, ok)
         /\ metrics' = [metrics EXCEPT ![w] = log_event_metrics(@, ok)]
         /\ LET h == [handler[w] EXCEPT !.audit_failed = IF ok THEN @ ELSE @ + 1]
            IN  IF log_event_raises(ok)
                THEN Finish(w, h, StoreError)
                ELSE Continue(w, Open([h EXCEPT !.pc = "database_insert"],
                                      "database_insert"))
    /\ UNCHANGED <<base, requests, calls, issued>>

\* variant: the insert failure is caught and counted as an error outcome
SubmitDatabaseInsertCounted(w) ==
    /\ At(w, "submit", "database_insert")
    /\ \E ok \in BOOLEAN :
         /\ StoreCall(ok)
         /\ LET h == handler[w]
                row == RequestRow(h.request_id, h.member_id, h.provider_npi, h.call)
            IN  IF ~ok
                THEN /\ requests' = requests
                     /\ metrics' = [metrics EXCEPT ![w] =
                            record_request(@, "error", SUBMIT)]
                     /\ Finish(w, [h EXCEPT !.store_failed = "insert"], StoreError)
                ELSE /\ requests' = Append(requests, row)
                     /\ metrics' = [metrics EXCEPT ![w] =
                            record_database_operation(@, "insert_request")]
                     /\ Continue(w, Close([h EXCEPT !.result = row,
                                                    !.pc = "log_saved"]))
    /\ UNCHANGED <<base, request_logs, calls, issued>>

\* INSERT INTO prior_auth_requests ... RETURNING, record_database_operation
SubmitDatabaseInsert(w) ==
    /\ At(w, "submit", "database_insert")
    /\ \E ok \in BOOLEAN :
         /\ StoreCall(ok)
         /\ LET h == handler[w]
                row == RequestRow(h.request_id, h.member_id, h.provider_npi, h.call)
            IN  IF ~ok
                THEN /\ UNCHANGED <<requests, metrics>>
                     /\ Finish(w, [h EXCEPT !.store_failed = "insert"], StoreError)
                ELSE /\ requests' = Append(requests, row)
                     /\ metrics' = [metrics EXCEPT ![w] =
                            record_database_operation(@, "insert_request")]
                     /\ Continue(w, Close([h EXCEPT !.result = row,
                                                    !.pc = "log_saved"]))
    /\ UNCHANGED <<base, request_logs, calls, issued>>

\* log_event(SAVED_TO_DATABASE)
SubmitLogSaved(w) ==
    /\ At(w, "submit", "log_saved")
    /\ \E ok \in BOOLEAN :
         /\ StoreCall(ok)
         /\ request_logs' = log_event_rows(request_logs, handler[w].request_id,
                                           "SAVED_TO_DATABASE", handler[w].call, ok)
         /\ metrics' = [metrics EXCEPT ![w] = log_event_metrics(@, ok)]
         /\ LET h == [handler[w] EXCEPT !.audit_failed = IF ok THEN @ ELSE @ + 1]
            IN  IF log_event_raises(ok)
                THEN Finish(w, h, StoreError)
                ELSE Continue(w, [h EXCEPT !.pc = "log_pending"])
    /\ UNCHANGED <<base, requests, calls, issued>>

\* log_event(STATUS_PENDING), record_request(success), return the row
SubmitLogPending(w) ==
    /\ At(w, "submit", "log_pending")
    /\ \E ok \in BOOLEAN :
         /\ StoreCall(ok)
         /\ request_logs' = log_event_rows(request_logs, handler[w].request_id,
                                           "STATUS_PENDING", handler[w].call, ok)
         /\ LET h == [handler[w] EXCEPT !.audit_failed = IF ok THEN @ ELSE @ + 1]
                m == log_event_metrics(metrics[w], ok)
            IN  IF log_event_raises(ok)
                THEN /\ metrics' = [metrics EXCEPT ![w] = m]
                     /\ Finish(w, h, StoreError)
                ELSE /\ metrics' = [metrics EXCEPT ![w] =
                            record_request(m, "success", SUBMIT)]
                     /\ Finish(w, h, Returned(201, "", h.result, <<>>))
    /\ UNCHANGED <<base, requests, calls, issued>>

(***************************************************************************)
(* POST /prior-auth/test/errors                                            *)
(***************************************************************************)
ERRORS == "/prior-auth/test/errors"

\* error_id = f"ERROR-{int(time.time())}"
TriggerReceive(w) ==
    /\ handler[w].op = "idle"
    /\ calls < MaxCalls
    /\ calls' = calls + 1
    /\ \E error_type \in ErrorTypes, t \in Times :
         Continue(w, [Idle EXCEPT !.op = "trigger_error", !.call = calls + 1,
                                  !.error_type = error_type,
                                  !.request_id = ErrorId(t),
                                  !.pc = "log_started"])
    /\ UNCHANGED <<base, requests, request_logs, metrics, issued, faults>>

\* variant: the timeout branch goes to its delay without logging DATABASE_SLOW
TriggerBranchSkipsSlow(error_type) ==
    IF error_type = "database_timeout" THEN "sleep"
    ELSE IF error_type = "validation_error" THEN "log_validation_error"
    ELSE "return"

\* variant: a final else that raises the validation error
TriggerBranchElseRaises(error_type) ==
    IF error_type = "database_timeout" THEN "log_database_slow"
    ELSE "log_validation_error"

\* the branch trigger_error takes after ERROR_TEST_STARTED
TriggerBranch(error_type) ==
    IF error_type = "database_timeout" THEN "log_database_slow"
    ELSE IF error_type = "validation_error" THEN "log_validation_error"
    ELSE "return"

\* log_event(ERROR_TEST_STARTED), then the if / elif / return
TriggerLogStarted(w) ==
    /\ At(w, "trigger_error", "log_started")
    /\ \E ok \in BOOLEAN :
         /\ StoreCall(ok)
         /\ request_logs' = log_event_rows(request_logs, handler[w].request_id,
                                           "ERROR_TEST_STARTED", handler[w].call, ok)
         /\ metrics' = [metrics EXCEPT ![w] = log_event_metrics(@, ok)]
         /\ LET h == [handler[w] EXCEPT !.audit_failed = IF ok THEN @ ELSE @ + 1]
            IN  IF log_event_raises(ok)
                THEN Finish(w, h, StoreError)
                ELSE IF TriggerBranch(h.error_type) = "return"
                THEN Finish(w, h, Returned(200, h.error_type, NoRow, <<>>))
                ELSE Continue(w, [h EXCEPT !.pc = TriggerBranch(h.error_type)])
    /\ UNCHANGED <<base, requests, calls, issued>>

\* log_event(DATABASE_SLOW)
TriggerLogDatabaseSlow(w) ==
    /\ At(w, "trigger_error", "log_database_slow")
    /\ \E ok \in BOOLEAN :
         /\ StoreCall(ok)
         /\ request_logs' = log_event_rows(request_logs, handler[w].request_id,
                                           "DATABASE_SLOW", handler[w].call, ok)
         /\ metrics' = [metrics EXCEPT ![w] = log_event_metrics(@, ok)]
         /\ LET h == [handler[w] EXCEPT !.audit_failed = IF ok THEN @ ELSE @ + 1]
            IN  IF log_event_raises(ok)
                THEN Finish(w, h, StoreError)
                ELSE Continue(w, [h EXCEPT !.pc = "sleep"])
    /\ UNCHANGED <<base, requests, calls, issued>>

\* seconds of the synthetic database timeout
TIMEOUT_DELAY == 5

\* time.sleep(5)
TriggerSleep(w) ==
    /\ At(w, "trigger_error", "sleep")
    /\ Continue(w, [handler[w] EXCEPT !.slept = @ + TIMEOUT_DELAY,
                                      !.pc = "log_database_timeout"])
    /\ UNCHANGED <<base, requests, request_logs, metrics, calls, issued, faults>>

\* log_event(DATABASE_TIMEOUT), record_request(timeout_error), HTTPException(503)
TriggerLogDatabaseTimeout(w) ==
    /\ At(w, "trigger_error", "log_database_timeout")
    /\ \E ok \in BOOLEAN :
         /\ StoreCall(ok)
         /\ request_logs' = log_event_rows(request_logs, handler[w].request_id,
                                           "DATABASE_TIMEOUT", handler[w].call, ok)
         /\ LET h == [handler[w] EXCEPT !.audit_failed = IF ok THEN @ ELSE @ + 1]
                m == log_event_metrics(metrics[w], ok)
            IN  IF log_event_raises(ok)
                THEN /\ metrics' = [metrics EXCEPT ![w] = m]
                     /\ Finish(w, h, StoreError)
                ELSE /\ metrics' = [metrics EXCEPT ![w] =
                            record_request(m, "timeout_error", ERRORS)]
                     /\ Finish(w, h, Raised(503, "Database timeout"))
    /\ UNCHANGED <<base, requests, calls, issued>>

\* log_event(VALIDATION_ERROR), record_request(validation_error), HTTPException(400)
TriggerLogValidationError(w) ==
    /\ At(w, "trigger_error", "log_validation_error")
    /\ \E ok \in BOOLEAN :
         /\ StoreCall(ok)
         /\ request_logs' = log_event_rows(request_logs, handler[w].request_id,
                                           "VALIDATION_ERROR", handler[w].call, ok)
         /\ LET h == [handler[w] EXCEPT !.audit_failed = IF ok THEN @ ELSE @ + 1]
                m == log_event_metrics(metrics[w], ok)
            IN  IF log_event_raises(ok)
                THEN /\ metrics' = [metrics EXCEPT ![w] = m]
                     /\ Finish(w, h, StoreError)
                ELSE /\ metrics' = [metrics EXCEPT ![w] =
                            record_request(m, "validation_error", ERRORS)]
                     /\ Finish(w, h, Raised(400, "Validation failed"))
    /\ UNCHANGED <<base, requests, calls, issued>>

(***************************************************************************)
(* GET /health, GET /, GET /prior-auth/requests, GET .../logs              *)
(***************************************************************************)
\* variant: conn.close() outside the try, its failure not reported
HealthStatusAcquiredOnly(acquired, released) ==
    IF acquired THEN "healthy" ELSE "unhealthy"

\* the try / bare except of health_check
HealthStatus(acquired, released) ==
    IF acquired /\ released THEN "healthy" ELSE "unhealthy"

\* record_request of health_check: success in the try, error in the except
HealthMetrics(m, acquired, released) ==
    IF acquired /\ released
    THEN record_request(m, "success", "/health")
    ELSE record_request(m, "error", "/health")

\* with RequestTimer("/health"): get_db_connection(); conn.close()
HealthCheck(w) ==
    /\ handler[w].op = "idle"
    /\ calls < MaxCalls
    /\ calls' = calls + 1
    /\ \E acquired \in BOOLEAN, released \in BOOLEAN :
         /\ acquired \/ released
         /\ StoreCall(acquired /\ released)
         /\ metrics' = [metrics EXCEPT ![w] =
                RequestTimerExit(HealthMetrics(@, acquired, released), "/health")]
         /\ Finish(w, [Idle EXCEPT !.op = "health_check", !.call = calls + 1,
                                   !.store_failed =
                                       IF acquired /\ released THEN "" ELSE "connect"],
                   Returned(200, HealthStatus(acquired, released), NoRow, <<>>))
    /\ UNCHANGED <<base, requests, request_logs, issued>>

\* root()
Root(w) ==
    /\ handler[w].op = "idle"
    /\ calls < MaxCalls
    /\ calls' = calls + 1
    /\ metrics' = [metrics EXCEPT ![w] = record_request(@, "success", "/")]
    /\ Finish(w, [Idle EXCEPT !.op = "root", !.call = calls + 1],
              Returned(200, "running", NoRow, <<>>))
    /\ UNCHANGED <<base, requests, request_logs, issued, faults>>

RECURSIVE Reverse(_)
Reverse(s) == IF s = <<>> THEN <<>> ELSE Append(Reverse(Tail(s)), Head(s))

\* ORDER BY created_at DESC LIMIT 100, over the rows inserted since start-up
NewestFirst(rows) == SubSeq(Reverse(rows), 1, IF Len(rows) < 100 THEN Len(rows) ELSE 100)

\* list_requests(), inside RequestTimer("/prior-auth/requests")
ListRequests(w) ==
    /\ handler[w].op = "idle"
    /\ calls < MaxCalls
    /\ calls' = calls + 1
    /\ \E ok \in BOOLEAN :
         /\ StoreCall(ok)
         /\ LET h == [Idle EXCEPT !.op = "list_requests", !.call = calls + 1,
                                  !.store_failed = IF ok THEN "" ELSE "select"]
                t == RequestTimerExit(metrics[w], "/prior-auth/requests")
            IN  IF ok
                THEN /\ metrics' = [metrics EXCEPT ![w] =
                            RequestTimerExit(
                                record_request(
                                    record_database_operation(@, "select_requests"),
                                    "success", "/prior-auth/requests"),
                                "/prior-auth/requests")]
                     /\ Finish(w, h, Returned(200, "", NoRow, NewestFirst(requests)))
                ELSE /\ metrics' = [metrics EXCEPT ![w] = t]
                     /\ Finish(w, h, StoreError)
    /\ UNCHANGED <<base, requests, request_logs, issued>>

\* SELECT * FROM request_logs WHERE request_id = %s ORDER BY timestamp
history(request_id) ==
    SelectSeq(request_logs, LAMBDA e : e.request_id = request_id)

\* identifiers a caller may ask the audit trail of
KnownIds == {get_next_request_id(base)} \cup
            {request_logs[i].request_id : i \in 1..Len(request_logs)}

\* get_request_logs(request_id)
GetRequestLogs(w) ==
    /\ handler[w].op = "idle"
    /\ calls < MaxCalls
    /\ calls' = calls + 1
    /\ \E request_id \in KnownIds, ok \in BOOLEAN :
         /\ StoreCall(ok)
         /\ LET h == [Idle EXCEPT !.op = "get_request_logs", !.call = calls + 1,
                                  !.request_id = request_id,
                                  !.store_failed = IF ok THEN "" ELSE "select"]
            IN  IF ok
                THEN /\ metrics' = [metrics EXCEPT ![w] =
                            record_database_operation(@, "select_logs")]
                     /\ Finish(w, h, Returned(200, "", NoRow, history(request_id)))
                ELSE /\ metrics' = metrics
                     /\ Finish(w, h, StoreError)
    /\ UNCHANGED <<base, requests, request_logs, issued>>

(***************************************************************************)
(* database.py: execute_query, one step per call on the connection         *)
(***************************************************************************)
\* what one execute_query call did, kept when it returns or raises
Executed(e, exit) ==
    [fetch |-> e.fetch, conn |-> e.conn, statements |-> e.statements,
     committed |-> e.committed, rolled_back |-> e.rolled_back, exit |-> exit]

\* execute_query returns or raises
ExecExit(e, exit) ==
    exec' = [NoExec EXCEPT !.finished = Append(e.finished, Executed(e, exit))]

StoreVars == <<base, requests, request_logs, metrics, handler, done, calls,
               issued, faults>>

\* execute_query(query, params, fetch) is called
ExecuteQuery ==
    /\ exec.pc = "idle"
    /\ Len(exec.finished) < MaxExecs
    /\ \E fetch \in BOOLEAN :
         exec' = [exec EXCEPT !.pc = "get_db_connection", !.fetch = fetch]
    /\ UNCHANGED StoreVars

\* conn = get_db_connection(): psycopg2.connect, outside the try block
GetDbConnection ==
    /\ exec.pc = "get_db_connection"
    /\ \E ok \in BOOLEAN :
         IF ok THEN exec' = [exec EXCEPT !.conn = "open", !.pc = "cursor"]
         ELSE ExecExit(exec, "raise")
    /\ UNCHANGED StoreVars

\* cursor = conn.cursor(), outside the try block
ConnCursor ==
    /\ exec.pc = "cursor"
    /\ \E ok \in BOOLEAN :
         IF ok THEN exec' = [exec EXCEPT !.pc = "execute"]
         ELSE ExecExit(exec, "raise")
    /\ UNCHANGED StoreVars

\* cursor.execute(query, params)
CursorExecute ==
    /\ exec.pc = "execute"
    /\ \E ok \in BOOLEAN :
         exec' = [exec EXCEPT !.statements = @ + 1,
                              !.pc = IF ~ok THEN "rollback"
                                     ELSE IF exec.fetch THEN "fetchall"
                                     ELSE "commit"]
    /\ UNCHANGED StoreVars

\* results = cursor.fetchall()
CursorFetchall ==
    /\ exec.pc = "fetchall"
    /\ \E ok \in BOOLEAN :
         exec' = [exec EXCEPT !.pc = IF ok THEN "commit" ELSE "rollback"]
    /\ UNCHANGED StoreVars

\* conn.commit()
ConnCommit ==
    /\ exec.pc = "commit"
    /\ \E ok \in BOOLEAN :
         IF ok THEN exec' = [exec EXCEPT !.committed = TRUE, !.pc = "close"]
         ELSE exec' = [exec EXCEPT !.pc = "rollback"]
    /\ UNCHANGED StoreVars

\* conn.close() and return, in the try block (close only releases the handle)
ConnClose ==
    /\ exec.pc = "close"
    /\ ExecExit([exec EXCEPT !.conn = "closed"], "return")
    /\ UNCHANGED StoreVars

\* except Exception: conn.rollback()
ConnRollback ==
    /\ exec.pc = "rollback"
    /\ \E ok \in BOOLEAN :
         IF ok THEN exec' = [exec EXCEPT !.rolled_back = TRUE, !.pc = "close_raise"]
         ELSE ExecExit(exec, "raise")
    /\ UNCHANGED StoreVars

\* conn.close(), print, raise, in the except block
ConnCloseRaise ==
    /\ exec.pc = "close_raise"
    /\ ExecExit([exec EXCEPT !.conn = "closed"], "raise")
    /\ UNCHANGED StoreVars

(***************************************************************************)
(* Specifications                                                          *)
(***************************************************************************)
\* a call arrives at worker w
Begin(w) ==
    \/ SubmitReceive(w)
    \/ TriggerReceive(w)
    \/ HealthCheck(w)
    \/ Root(w)
    \/ ListRequests(w)
    \/ GetRequestLogs(w)

\* the handler running on worker w goes on to its next store call
Step(w) ==
    \/ SubmitGenerateId(w)
    \/ SubmitVipSleep(w)
    \/ SubmitLogReceived(w)
    \/ SubmitLogValidationFailed(w)
    \/ SubmitGenerateIdAgain(w)
    \/ SubmitLogValidationPassed(w)
    \/ SubmitDatabaseInsert(w)
    \/ SubmitLogSaved(w)
    \/ SubmitLogPending(w)
    \/ TriggerLogStarted(w)
    \/ TriggerLogDatabaseSlow(w)
    \/ TriggerSleep(w)
    \/ TriggerLogDatabaseTimeout(w)
    \/ TriggerLogValidationError(w)

Next == \E w \in Workers : Begin(w) \/ Step(w)

Spec == Init /\ [][Next]_vars

\* serialized invocation: a call arrives only when no handler is in progress
AllIdle == \A w \in Workers : handler[w].op = "idle"

NextSerial == \E w \in Workers : (AllIdle /\ Begin(w)) \/ Step(w)

SpecSerial == Init /\ [][NextSerial]_vars

\* execute_query on its own, every call on the connection able to raise
NextStore ==
    \/ ExecuteQuery
    \/ GetDbConnection
    \/ ConnCursor
    \/ CursorExecute
    \/ CursorFetchall
    \/ ConnCommit
    \/ ConnClose
    \/ ConnRollback
    \/ ConnCloseRaise

SpecStore == Init /\ [][NextStore]_vars

(***************************************************************************)
(* Properties                                                              *)
(***************************************************************************)
Calls == 1..Len(done)

Succeeded(d) == d.op = "submit" /\ d.outcome.kind = "return" /\ d.outcome.status = 201
ValidationFailed(d) == d.op = "submit" /\ d.outcome.kind = "raise" /\ d.outcome.status = 400

\* the event types of the audit trail stored under request_id
EventTypes(request_id) ==
    {request_logs[i].event_type :
        i \in {j \in 1..Len(request_logs) : request_logs[j].request_id = request_id}}

PassedGroup == {"VALIDATION_PASSED", "SAVED_TO_DATABASE", "STATUS_PENDING"}

RowsOf(call) == {i \in 1..Len(requests) : requests[i].call = call}

DigitValue(c) == (CHOOSE i \in 1..10 : DigitChars[i] = c) - 1

RECURSIVE ToNat(_)
\* the number a string of decimal digits denotes
ToNat(s) == IF s = <<>> THEN 0
            ELSE 10 * ToNat(SubSeq(s, 1, Len(s) - 1)) + DigitValue(s[Len(s)])

\* the number in a PA- identifier
PaNumber(request_id) == ToNat(SubSeq(request_id, 4, Len(request_id)))

\* request_id is PA- followed by n in decimal, zero-padded to 5 digits
IsPaId(request_id, n) ==
    /\ Len(request_id) >= 8
    /\ SubSeq(request_id, 1, 3) = <<"P", "A", "-">>
    /\ \A i \in 4..Len(request_id) : request_id[i] \in Digits
    /\ Len(request_id) > 8 => request_id[4] # "0"
    /\ PaNumber(request_id) = n

\* C1: after a submit that ended in success or validation failure, with every
\* audit write successful and no other call in progress, the audit trail under
\* the call's identifier has REQUEST_RECEIVED and exactly one outcome group:
\* VALIDATION_FAILED alone, or the three events of the passed group.
C1_TrailHasOneOutcomeGroup ==
    (faults = 0 /\ AllIdle /\ done # <<>>) =>
        LET d == done[Len(done)]
            T == EventTypes(d.request_id)
        IN  (Succeeded(d) \/ ValidationFailed(d)) =>
                /\ "REQUEST_RECEIVED" \in T
                /\ \/ "VALIDATION_FAILED" \in T /\ T \cap PassedGroup = {}
                   \/ PassedGroup \subseteq T /\ "VALIDATION_FAILED" \notin T

\* C2: without store failures, every submit whose provider identifier is not
\* exactly 10 digits raises the 400 validation error and persists no record.
C2_InvalidNpiRaises400 ==
    faults = 0 =>
        \A i \in Calls :
            (done[i].op = "submit" /\ ~NpiValid(done[i].provider_npi)) =>
                /\ done[i].outcome.kind = "raise"
                /\ done[i].outcome.status = 400
                /\ RowsOf(done[i].call) = {}

SuccessesBefore(i) == Cardinality({j \in 1..(i - 1) : Succeeded(done[j])})

C4_IdsUniqueAndIncreasing ==
    /\ \A i, j \in 1..Len(requests) :
         i < j => requests[i].request_id # requests[j].request_id
    /\ \A i, j \in 1..Len(issued) :
         (i < j /\ issued[i].call # issued[j].call) =>
             PaNumber(issued[i].request_id) < PaNumber(issued[j].request_id)

\* C5: every persisted record has a REQUEST_RECEIVED event under its own
\* identifier (stated for the runs in which no audit write failed).
C5_RecordHasRequestReceived ==
    faults = 0 =>
        \A i \in 1..Len(requests) :
            "REQUEST_RECEIVED" \in EventTypes(requests[i].request_id)

CallsOn(w, P(_)) == Cardinality({i \in Calls : done[i].w = w /\ P(done[i])})

ExpectedStatus(d) ==
    IF ~SchemaAccepts(d.provider_npi) THEN 422
    ELSE IF d.store_failed # "" THEN 500
    ELSE IF ~NpiValid(d.provider_npi) THEN 400
    ELSE 201

Expected201(d) == d.op = "submit" /\ ExpectedStatus(d) = 201
Expected400(d) == d.op = "submit" /\ ExpectedStatus(d) = 400

\* C7: whichever audit writes fail, a submit ends as its input and the other
\* store calls decide, its record is persisted exactly when it succeeds, and
\* the outcome and validation-failure counters count as if none had failed.
C7_AuditFailureSwallowed ==
    /\ \A i \in Calls :
         done[i].op = "submit" =>
             /\ done[i].outcome.status = ExpectedStatus(done[i])
             /\ Cardinality(RowsOf(done[i].call))
                    = IF ExpectedStatus(done[i]) = 201 THEN 1 ELSE 0
    /\ \A w \in Workers :
         /\ Value(metrics[w].requests_total, <<"success", SUBMIT>>)
                = CallsOn(w, Expected201)
         /\ Value(metrics[w].requests_total, <<"validation_error", SUBMIT>>)
                = CallsOn(w, Expected400)
         /\ Value(metrics[w].validation_failures, <<"invalid_npi_format">>)
                = CallsOn(w, Expected400)

\* a submit that lost an audit write and still returned its record
C7_Witness ==
    \E i \in Calls : Succeeded(done[i]) /\ done[i].audit_failed > 0

\* C8: an error injection ends as error_type alone decides: database_timeout
\* raises 503 after the delay, validation_error raises 400 with no delay,
\* anything else returns the echo with no delay; the timeout branch is past
\* its delay before it writes DATABASE_TIMEOUT.
C8_OutcomeByErrorType ==
    /\ \A i \in Calls :
         done[i].op = "trigger_error" =>
             LET d == done[i]
             IN  CASE d.error_type = "database_timeout" ->
                        /\ d.outcome.kind = "raise" /\ d.outcome.status = 503
                        /\ d.slept = TIMEOUT_DELAY
                   [] d.error_type = "validation_error" ->
                        /\ d.outcome.kind = "raise" /\ d.outcome.status = 400
                        /\ d.slept = 0
                   [] OTHER ->
                        /\ d.outcome.kind = "return"
                        /\ d.outcome.detail = d.error_type
                        /\ d.slept = 0
    /\ \A w \in Workers :
         At(w, "trigger_error", "log_database_timeout") =>
             handler[w].slept = TIMEOUT_DELAY

\* a database_timeout injection that ended, one of its audit writes lost
C8_Witness ==
    \E i \in Calls :
        /\ done[i].op = "trigger_error"
        /\ done[i].error_type = "database_timeout"
        /\ done[i].audit_failed > 0

Healthy(d) == d.op = "health_check" /\ d.outcome.detail = "healthy"
Unhealthy(d) == d.op = "health_check" /\ d.outcome.detail = "unhealthy"
IsHealthCheck(d) == d.op = "health_check"

\* C9: a health check returns, healthy exactly when the connection was
\* acquired and released; per worker the /health success and error counters
\* and the latency observations count the checks it served.
C9_HealthNeverRaises ==
    /\ \A i \in Calls :
         done[i].op = "health_check" =>
             /\ done[i].outcome.kind = "return"
             /\ done[i].outcome.detail \in {"healthy", "unhealthy"}
             /\ done[i].outcome.detail = "healthy" <=> done[i].store_failed = ""
    /\ \A w \in Workers :
         /\ Value(metrics[w].requests_total, <<"success", "/health">>) = CallsOn(w, Healthy)
         /\ Value(metrics[w].requests_total, <<"error", "/health">>) = CallsOn(w, Unhealthy)
         /\ Value(metrics[w].request_duration, <<"/health">>) = CallsOn(w, IsHealthCheck)

\* a health check that could not reach the store
C9_Witness ==
    \E i \in Calls : Unhealthy(done[i]) /\ done[i].store_failed = "connect"

\* the units submit has entered: in progress and finished
UnitIds(u) == [call |-> u.call, request_id |-> u.request_id,
               attr_request_id |-> u.attr_request_id]

SubmitUnits ==
    {UnitIds(handler[w]) : w \in {v \in Workers : handler[v].op = "submit"}}
    \cup {UnitIds(done[i]) : i \in {j \in Calls : done[j].op = "submit"}}

\* C10: the identifier in the root span attribute request.id is the one every
\* audit event of the unit is stored under and the one in its persisted record.
C10_OneIdentifierPerUnit ==
    \A u \in SubmitUnits :
        u.attr_request_id # <<>> =>
            /\ u.request_id = u.attr_request_id
            /\ \A i \in 1..Len(request_logs) :
                 request_logs[i].call = u.call =>
                     request_logs[i].request_id = u.attr_request_id
            /\ \A i \in RowsOf(u.call) :
                 requests[i].request_id = u.attr_request_id

\* C11: the identifier is a function of the count read and of nothing else
\* (no lock, no sequence): any two generations that read the same count are
\* handed the same identifier, PA-(count + 1), also when they belong to two
\* different units of which neither has inserted yet.
C11_SameCountSameId ==
    \A i, j \in 1..Len(issued) :
        issued[i].count = issued[j].count =>
            /\ issued[i].request_id = issued[j].request_id
            /\ IsPaId(issued[i].request_id, issued[i].count + 1)

\* the race: two units in progress on two workers, both past their count
\* query and neither past its insert, holding the same identifier
C11_Witness ==
    \E v, w \in Workers :
        /\ v # w
        /\ handler[v].op = "submit" /\ handler[w].op = "submit"
        /\ handler[v].request_id # <<>>
        /\ handler[v].request_id = handler[w].request_id
        /\ RowsOf(handler[v].call) = {} /\ RowsOf(handler[w].call) = {}
        /\ \E i, j \in 1..Len(issued) :
             /\ issued[i].call = handler[v].call
             /\ issued[j].call = handler[w].call
             /\ issued[i].count = issued[j].count

\* the audit rows a call has written with the given event type
EventsOf(call, event_type) ==
    {i \in 1..Len(request_logs) :
        request_logs[i].call = call /\ request_logs[i].event_type = event_type}

BadNpi(d) == d.op = "submit" /\ ~NpiValid(d.provider_npi)

\* C12: without store failures, every finished submit whose provider
\* identifier is not exactly 10 digits has written exactly one
\* VALIDATION_FAILED event, under the identifier it attempted, and in its
\* worker the invalid_npi_format counter and the validation_error outcome
\* counter have one increment per such submit, the success counter none.
C12_BadNpiLeavesFailureTrail ==
    faults = 0 =>
        /\ \A i \in Calls :
             BadNpi(done[i]) =>
                 /\ Cardinality(EventsOf(done[i].call, "VALIDATION_FAILED")) = 1
                 /\ \A j \in EventsOf(done[i].call, "VALIDATION_FAILED") :
                      request_logs[j].request_id = done[i].request_id
        /\ \A w \in Workers :
             /\ Value(metrics[w].validation_failures, <<"invalid_npi_format">>)
                    = CallsOn(w, BadNpi)
             /\ Value(metrics[w].requests_total, <<"validation_error", SUBMIT>>)
                    = CallsOn(w, BadNpi)
             /\ Value(metrics[w].requests_total, <<"success", SUBMIT>>)
                    = CallsOn(w, Succeeded)

\* the worker that serves (or served) a call
ServedBy(call, w) ==
    \/ handler[w].op # "idle" /\ handler[w].call = call
    \/ \E i \in Calls : done[i].call = call /\ done[i].w = w

InsertFailed(d) == d.op = "submit" /\ d.store_failed = "insert"

\* C13: a submit whose insert failed ends with the store error; it has
\* persisted no record and written no SAVED_TO_DATABASE or STATUS_PENDING
\* event, while its REQUEST_RECEIVED and VALIDATION_PASSED events (if their
\* writes succeeded) are still there; it has moved no request-outcome counter
\* (the only outcome series of /prior-auth/submit are success and
\* validation_error, one increment per 201 and per 400) and no insert_request
\* counter (one increment per record the worker persisted).
C13_InsertFailurePropagates ==
    /\ \A i \in Calls :
         InsertFailed(done[i]) =>
             /\ done[i].outcome = StoreError
             /\ RowsOf(done[i].call) = {}
             /\ EventsOf(done[i].call, "SAVED_TO_DATABASE") = {}
             /\ EventsOf(done[i].call, "STATUS_PENDING") = {}
             /\ done[i].audit_failed = 0 =>
                    /\ Cardinality(EventsOf(done[i].call, "REQUEST_RECEIVED")) = 1
                    /\ Cardinality(EventsOf(done[i].call, "VALIDATION_PASSED")) = 1
    /\ \A w \in Workers :
         /\ \A k \in DOMAIN metrics[w].requests_total :
              k[2] = SUBMIT => k[1] \in {"success", "validation_error"}
         /\ Value(metrics[w].requests_total, <<"success", SUBMIT>>)
                = CallsOn(w, Succeeded)
         /\ Value(metrics[w].requests_total, <<"validation_error", SUBMIT>>)
                = CallsOn(w, ValidationFailed)
         /\ Value(metrics[w].database_operations, <<"insert_request">>)
                = Cardinality({i \in 1..Len(requests) :
                                  ServedBy(requests[i].call, w)})

\* a submit whose insert failed after its first two audit events were written
C13_Witness ==
    \E i \in Calls :
        /\ InsertFailed(done[i])
        /\ EventsOf(done[i].call, "REQUEST_RECEIVED") # {}
        /\ EventsOf(done[i].call, "VALIDATION_PASSED") # {}

\* the audit rows a call has written
AuditRowsOf(call) == {i \in 1..Len(request_logs) : request_logs[i].call = call}

\* C14: a submit that ended because a count query of the identifier
\* generator failed has written no audit event: no REQUEST_RECEIVED event is
\* left behind by an identifier-generation failure.
C14_CountFailureLeavesNoEvent ==
    \A i \in Calls :
        (done[i].op = "submit" /\ done[i].store_failed = "count") =>
            /\ done[i].outcome = StoreError
            /\ AuditRowsOf(done[i].call) = {}

\* the place of an event type in the order of a submit unit
EventRank(event_type) ==
    CASE event_type = "REQUEST_RECEIVED" -> 1
      [] event_type = "VALIDATION_PASSED" -> 2
      [] event_type = "VALIDATION_FAILED" -> 2
      [] event_type = "SAVED_TO_DATABASE" -> 3
      [] event_type = "STATUS_PENDING" -> 4
      [] OTHER -> 0

SubmitCallIds ==
    {handler[w].call : w \in {v \in Workers : handler[v].op = "submit"}}
    \cup {done[i].call : i \in {j \in Calls : done[j].op = "submit"}}

\* C15: in the audit log the events of one submit unit stand in the order
\* REQUEST_RECEIVED, then VALIDATION_PASSED or VALIDATION_FAILED (never both),
\* then SAVED_TO_DATABASE, then STATUS_PENDING, each at most once, whatever
\* other units wrote in between; SAVED_TO_DATABASE and STATUS_PENDING are
\* there only when the unit's record is persisted, and nothing follows
\* VALIDATION_FAILED.
C15_AuditOrderWithinUnit ==
    \A c \in SubmitCallIds :
        /\ \A i, j \in AuditRowsOf(c) :
             i < j => /\ EventRank(request_logs[i].event_type) >= 1
                      /\ EventRank(request_logs[i].event_type)
                             < EventRank(request_logs[j].event_type)
                      /\ request_logs[i].event_type # "VALIDATION_FAILED"
        /\ (EventsOf(c, "SAVED_TO_DATABASE") # {} \/ EventsOf(c, "STATUS_PENDING") # {})
               => RowsOf(c) # {}

\* a successful submit with its four events in the log and an event of
\* another unit between its first and its last
C15_Witness ==
    \E i \in Calls :
        /\ Succeeded(done[i])
        /\ Cardinality(AuditRowsOf(done[i].call)) = 4
        /\ \E a, b \in AuditRowsOf(done[i].call), x \in 1..Len(request_logs) :
             a < x /\ x < b /\ request_logs[x].call # done[i].call

\* the handler on worker w is inside a store call or a synthetic delay
Suspended(w) == handler[w].op # "idle"

\* C16: while a unit is suspended at a store call or a synthetic delay, every
\* other unit in progress can take its next step, and a further call that
\* arrives at the process of the suspended unit is taken up.
C16_SuspendedUnitBlocksNoOne ==
    \A w \in Workers :
        Suspended(w) =>
            /\ \A v \in Workers \ {w} : Suspended(v) => ENABLED Step(v)
            /\ calls < MaxCalls => ENABLED Begin(w)

\* C17: every finished execute_query acquired one connection, ran one
\* statement, committed exactly when it returned normally and rolled back
\* otherwise, and left the connection it acquired closed.
C17_ConnectionClosedOnEveryExit ==
    \A i \in 1..Len(exec.finished) :
        LET e == exec.finished[i]
        IN  /\ e.conn # "none" => e.conn = "closed"
            /\ e.statements <= 1
            /\ e.committed <=> e.exit = "return"
            /\ (e.conn # "none" /\ ~e.committed) => e.rolled_back

InsertRequestCount(w) == Value(metrics[w].database_operations, <<"insert_request">>)

RECURSIVE InsertRequestTotal(_)
\* the insert_request counters of the workers in S added up
InsertRequestTotal(S) ==
    IF S = {} THEN 0
    ELSE LET w == CHOOSE x \in S : TRUE
         IN  InsertRequestCount(w) + InsertRequestTotal(S \ {w})

\* the audit rows a call wrote after its record was persisted
PostPersistence(call) ==
    {i \in AuditRowsOf(call) : EventRank(request_logs[i].event_type) >= 3}

\* successful submits with no failed audit write have exactly the two
\* post-persistence events
TwoPostPersistenceEvents ==
    \A i \in Calls :
        (Succeeded(done[i]) /\ done[i].audit_failed = 0) =>
            /\ Cardinality(PostPersistence(done[i].call)) = 2
            /\ Cardinality(EventsOf(done[i].call, "SAVED_TO_DATABASE")) = 1
            /\ Cardinality(EventsOf(done[i].call, "STATUS_PENDING")) = 1

\* C18 as stated: in every quiescent state the insert_request counter (the
\* counters of all workers added up) equals the number of persisted Request
\* Records, and each successful submit has written its two post-persistence
\* events.
C18_InsertCounterEqualsRecords ==
    AllIdle =>
        /\ InsertRequestTotal(Workers) = CountRequests
        /\ TwoPostPersistenceEvents

\* C18 amended: in every quiescent state each worker's insert_request counter
\* equals the number of Request Records that worker has inserted, so the
\* counters add up to the records persisted since start-up (the rows that
\* were in the table before are not counted), and each successful submit
\* has written its two post-persistence events.
C18_InsertCounterCountsOwnInserts ==
    AllIdle =>
        /\ \A w \in Workers :
             InsertRequestCount(w)
                 = Cardinality({i \in 1..Len(requests) :
                                   ServedBy(requests[i].call, w)})
        /\ InsertRequestTotal(Workers) = Len(requests)
        /\ InsertRequestTotal(Workers) = CountRequests - base
        /\ TwoPostPersistenceEvents

\* quiescent, rows in the table from before start-up, and two records
\* persisted since, one by each worker, all audit writes successful
C18_Witness ==
    /\ AllIdle
    /\ base > 0
    /\ Len(requests) = 2
    /\ \A w \in Workers : InsertRequestCount(w) = 1
    /\ \A i \in Calls : Succeeded(done[i]) /\ done[i].audit_failed = 0

Range(seq) == {seq[i] : i \in 1..Len(seq)}

NoDuplicates(seq) == \A i, j \in 1..Len(seq) : seq[i] = seq[j] => i = j

\* the spans a finished submit has opened, from how far it got
OpenedSpans(d) ==
    (IF SchemaAccepts(d.provider_npi) THEN {"submit_prior_auth"} ELSE {})
    \cup (IF d.assigned # <<>> /\ d.member_id = "M99999"
          THEN {"vip_member_slow_query"} ELSE {})
    \cup (IF d.assigned # <<>> THEN {"validate_npi"} ELSE {})
    \cup (IF d.assigned # <<>> /\ NpiValid(d.provider_npi)
          THEN {"generate_request_id"} ELSE {})
    \cup (IF Len(d.assigned) = 2 THEN {"database_insert"} ELSE {})

\* C19: a finished submit, however it ended, has no span open; every span it
\* opened was closed once, the children before the root, which is closed
\* last.  In a submit in progress the root is open, at most one child is open
\* inside it (a child's parent is the root), and no closed span is open.
C19_SpansClosedOnEveryExit ==
    /\ \A i \in Calls :
         done[i].op = "submit" =>
             /\ done[i].spans = <<>>
             /\ Range(done[i].closed) = OpenedSpans(done[i])
             /\ NoDuplicates(done[i].closed)
             /\ done[i].closed # <<>> =>
                    done[i].closed[Len(done[i].closed)] = "submit_prior_auth"
    /\ \A w \in Workers :
         handler[w].op = "submit" =>
             /\ handler[w].spans # <<>>
             /\ handler[w].spans[1] = "submit_prior_auth"
             /\ Len(handler[w].spans) <= 2
             /\ Range(handler[w].spans) \cap Range(handler[w].closed) = {}
             /\ NoDuplicates(handler[w].closed)

\* a submit for member M99999 that ended on a failed insert (inside the
\* database_insert span) and one that ended on the NPI rule (inside the
\* validate_npi span)
C19_Witness ==
    /\ \E i \in Calls :
         /\ InsertFailed(done[i])
         /\ done[i].closed = <<"vip_member_slow_query", "validate_npi",
                               "generate_request_id", "database_insert",
                               "submit_prior_auth">>
    /\ \E i \in Calls :
         /\ ValidationFailed(done[i])
         /\ done[i].closed = <<"validate_npi", "submit_prior_auth">>

\* the event types of the audit rows a call has written, in log order
AuditTypesOf(call) ==
    LET rows == SelectSeq(request_logs, LAMBDA r : r.call = call)
    IN  [i \in 1..Len(rows) |-> rows[i].event_type]

TimeoutInjected(d) == d.op = "trigger_error" /\ d.error_type = "database_timeout"
ValidationInjected(d) == d.op = "trigger_error" /\ d.error_type = "validation_error"

\* C20: an error injection writes all its audit events under the one
\* ERROR-<seconds> identifier computed at its start.  database_timeout (no
\* audit write failed): ERROR_TEST_STARTED, DATABASE_SLOW, the 5 s delay,
\* DATABASE_TIMEOUT, then 503; the delay has not started before
\* DATABASE_SLOW and is over before DATABASE_TIMEOUT.  validation_error:
\* ERROR_TEST_STARTED, VALIDATION_ERROR, then 400.  Per worker the outcome
\* counters timeout_error and validation_error of the error endpoint have one
\* increment per injection that ended that way; injections add no
\* validation-failure series or increment and persist no record.
C20_InjectionOrder ==
    /\ \A i \in Calls :
         done[i].op = "trigger_error" =>
             /\ \A j \in AuditRowsOf(done[i].call) :
                  request_logs[j].request_id = done[i].request_id
             /\ \E t \in Times : done[i].request_id = ErrorId(t)
             /\ RowsOf(done[i].call) = {}
             /\ (TimeoutInjected(done[i]) /\ done[i].audit_failed = 0) =>
                    /\ AuditTypesOf(done[i].call)
                           = <<"ERROR_TEST_STARTED", "DATABASE_SLOW", "DATABASE_TIMEOUT">>
                    /\ done[i].slept = TIMEOUT_DELAY
                    /\ done[i].outcome = Raised(503, "Database timeout")
             /\ (ValidationInjected(done[i]) /\ done[i].audit_failed = 0) =>
                    /\ AuditTypesOf(done[i].call)
                           = <<"ERROR_TEST_STARTED", "VALIDATION_ERROR">>
                    /\ done[i].slept = 0
                    /\ done[i].outcome = Raised(400, "Validation failed")
    /\ \A w \in Workers :
         /\ At(w, "trigger_error", "sleep") =>
                /\ handler[w].slept = 0
                /\ EventsOf(handler[w].call, "DATABASE_TIMEOUT") = {}
                /\ handler[w].audit_failed = 0 =>
                       AuditTypesOf(handler[w].call)
                           = <<"ERROR_TEST_STARTED", "DATABASE_SLOW">>
         /\ At(w, "trigger_error", "log_database_timeout") =>
                /\ handler[w].slept = TIMEOUT_DELAY
                /\ EventsOf(handler[w].call, "DATABASE_TIMEOUT") = {}
         /\ Value(metrics[w].requests_total, <<"timeout_error", ERRORS>>)
                = CallsOn(w, TimeoutInjected)
         /\ Value(metrics[w].requests_total, <<"validation_error", ERRORS>>)
                = CallsOn(w, ValidationInjected)
         /\ DOMAIN metrics[w].validation_failures \subseteq {<<"invalid_npi_format">>}
         /\ Value(metrics[w].validation_failures, <<"invalid_npi_format">>)
                = CallsOn(w, ValidationFailed)

\* one injection of each kind has ended, every audit write successful
C20_Witness ==
    /\ faults = 0
    /\ \E i \in Calls :
         /\ TimeoutInjected(done[i])
         /\ Len(AuditTypesOf(done[i].call)) = 3
    /\ \E i \in Calls :
         /\ ValidationInjected(done[i])
         /\ Len(AuditTypesOf(done[i].call)) = 2

UnknownInjected(d) ==
    d.op = "trigger_error"
    /\ d.error_type \notin {"database_timeout", "validation_error"}

\* C21: an error injection with an unknown error type returns the echo and
\* changes nothing else: when no store call has failed and nothing but such
\* injections has been called, the audit log and the table of Request Records
\* are empty and no worker has any metric series.
C21_UnknownTypeIsNoOp ==
    (faults = 0 /\ AllIdle /\ \A i \in Calls : UnknownInjected(done[i])) =>
        /\ \A i \in Calls :
             /\ done[i].outcome = Returned(200, done[i].error_type, NoRow, <<>>)
             /\ AuditRowsOf(done[i].call) = {}
        /\ request_logs = <<>>
        /\ requests = <<>>
        /\ \A w \in Workers : metrics[w] = NoMetrics

\* the record of the finished call with this number
DoneOf(call) == done[CHOOSE i \in Calls : done[i].call = call]

\* C22: under serialized invocation, when a submit that was given an
\* identifier has ended without success (validation failure, persistence
\* failure) it has persisted no record, and the next submit reads the same
\* count and is given the same identifier; after a successful submit the
\* count read is one higher.
C22_FailedSubmitKeepsIdentifier ==
    \A a \in 1..(Len(issued) - 1) :
        LET x == issued[a]
            y == issued[a + 1]
        IN  x.call # y.call =>
                /\ \E i \in Calls : done[i].call = x.call
                /\ IF Succeeded(DoneOf(x.call))
                   THEN y.count = x.count + 1
                   ELSE /\ RowsOf(x.call) = {}
                        /\ y.count = x.count
                        /\ y.request_id = x.request_id

\* a submit rejected by the NPI rule, then a submit given the same
\* identifier: the trail of that identifier holds the VALIDATION_FAILED of
\* the first call and the REQUEST_RECEIVED of the second
C22_Witness ==
    \E i, j \in 1..Len(request_logs) :
        /\ request_logs[i].request_id = request_logs[j].request_id
        /\ request_logs[i].call # request_logs[j].call
        /\ request_logs[i].event_type = "VALIDATION_FAILED"
        /\ request_logs[j].event_type = "REQUEST_RECEIVED"
        /\ i < j
        /\ \E k \in Calls :
             done[k].call = request_logs[i].call /\ ValidationFailed(done[k])

====
